---- MODULE Spec2Model ----
(***************************************************************************)
(* Approval workflow of SwapTool: leave requests (creation form, decision  *)
(* transitions), the wfm_auto_approve setting, and the swap-request        *)
(* creation form, as state machines translated from the sources.           *)
(***************************************************************************)
EXTENDS Integers, Sequences, FiniteSets, TLC

\* ------------------------------------------------------------------ bounds
MaxLeave == 1      \* rows the leave_requests table may hold
MaxClock == 2      \* last instant the clock can show
MaxSwap  == 1      \* rows the swap_requests table may hold
MaxInFlight == 2   \* queries of one kind the swap form may have in flight

\* ------------------------------------------------------------- vocabulary
NULL == 0          \* a null column / an unset timestamp (clock starts at 1)
Undefined == "undefined"   \* settings?.value when settings is null

Users == {"agent1", "agent2", "tl1", "wfm1"}

Role(u) == CASE u = "tl1"  -> "tl"
             [] u = "wfm1" -> "wfm"
             [] OTHER      -> "agent"

Roles == {"agent", "tl", "wfm"}

LEAVE_TYPES == {"sick", "annual", "casual", "public_holiday", "bereavement"}

\* The leave types the form is driven with, and the user signed in at the
\* browser that shows it.
LeaveTypeChoices == {"annual"}
FormUser == "agent1"

LeaveRequestStatus == {"pending_tl", "pending_wfm", "approved", "rejected"}

\* The value of a date input: "" (EmptyDate), or one of two consecutive
\* calendar days, which order the two dates of a request every possible way.
EmptyDate == 0
Days == {1, 2}
DateInputs == {EmptyDate} \cup Days

\* new Date('YYYY-MM-DD'): milliseconds since the epoch at UTC midnight.
ParseDate(d) == d * (24 * 60 * 60 * 1000)

\* The messages the leave form shows.
MissingDates   == "Please select both start and end dates"
InvalidRange   == "End date cannot be before start date"
InsertFailed   == "Failed to create request"

\* Outcomes of the decision transitions.
Unauthorized   == "Unauthorized"
TerminalState  == "TerminalState"
NotFound       == "NotFound"
OK             == "ok"

VARIABLES
  now,             \* the wall clock
  settings,        \* settings table: key -> value (text)
  leave_requests,  \* leave_requests table, a sequence of rows (index = id)
  settingsPage,    \* Settings component state (of the workforce manager)
  rejectedFrom,    \* history: stage at which each leave request was rejected
  last,            \* history: the operation that ended last, and its outcome
  authUser,        \* AuthProvider: the user of the browser showing the swap form
  today,           \* the calendar day new Date() shows
  shifts,          \* shifts table: id -> row
  swap_requests,   \* swap_requests table, a sequence of rows (index = id)
  swapForm,        \* CreateSwapRequest component state
  swapFetches,     \* CreateSwapRequest: the queries in flight
  swapLast,        \* history: how the last swap-form submission ended
  swapDeciding,    \* the decision each manager has read and not yet saved
  users,           \* the ids of the rows of the users table
  auth,            \* AuthProvider state: user, supabaseUser, session, loading
  authRun          \* AuthProvider: stored session, calls and fetches under way

leaveVars == <<now, settings, leave_requests, settingsPage, rejectedFrom, last>>

swapVars == <<authUser, today, shifts, swap_requests, swapForm, swapFetches,
              swapLast, swapDeciding, users, auth, authRun>>

vars == <<now, settings, leave_requests, settingsPage, rejectedFrom, last,
          authUser, today, shifts, swap_requests, swapForm, swapFetches,
          swapLast, swapDeciding, users, auth, authRun>>

NoRequest == [user_id |-> "", leave_type |-> "", start_date |-> EmptyDate,
              end_date |-> EmptyDate, status |-> "", tl_approved_at |-> NULL,
              wfm_approved_at |-> NULL, created_at |-> NULL]

Last(op, outcome, id, role, decision, flag, before) ==
  [op |-> op, outcome |-> outcome, id |-> id, role |-> role,
   decision |-> decision, flag |-> flag, before |-> before]

\* -------------------------------------------------- CreateLeaveRequest form

\* if (!startDate || !endDate)
DatesMissing(startDate, endDate) ==
  startDate = EmptyDate \/ endDate = EmptyDate

\* Mutant of EndBeforeStart: the comparison taken the other way round.
EndBeforeStart_Reversed(startDate, endDate) ==
  ParseDate(endDate) > ParseDate(startDate)

\* if (new Date(endDate) < new Date(startDate))
EndBeforeStart(startDate, endDate) ==
  ParseDate(endDate) < ParseDate(startDate)

\* const isAutoApprove = settings?.value === 'true'
\* (settings is null when the read fails: settings?.value is then undefined.)
IsAutoApprove(value) == value = "true"

\* Mutant of NewLeaveRow: the auto-approved row lacks its team-lead stamp.
NewLeaveRow_NoTlStamp(f, tWfm, tTl, tCreated) ==
  [user_id         |-> f.user,
   leave_type      |-> f.leaveType,
   start_date      |-> f.startDate,
   end_date        |-> f.endDate,
   status          |-> IF f.isAutoApprove THEN "approved" ELSE "pending_tl",
   wfm_approved_at |-> IF f.isAutoApprove THEN tWfm ELSE NULL,
   tl_approved_at  |-> NULL,
   created_at      |-> tCreated]

\* Mutant of NewLeaveRow: a request that is not auto-approved starts at the
\* second review stage.
NewLeaveRow_StartsAtWfm(f, tWfm, tTl, tCreated) ==
  [user_id         |-> f.user,
   leave_type      |-> f.leaveType,
   start_date      |-> f.startDate,
   end_date        |-> f.endDate,
   status          |-> IF f.isAutoApprove THEN "approved" ELSE "pending_wfm",
   wfm_approved_at |-> IF f.isAutoApprove THEN tWfm ELSE NULL,
   tl_approved_at  |-> IF f.isAutoApprove THEN tTl ELSE NULL,
   created_at      |-> tCreated]

\* The row handed to .insert(...); created_at is filled by the table default.
\* tWfm and tTl are the two readings of new Date(), tCreated the default's.
NewLeaveRow(f, tWfm, tTl, tCreated) ==
  [user_id         |-> f.user,
   leave_type      |-> f.leaveType,
   start_date      |-> f.startDate,
   end_date        |-> f.endDate,
   status          |-> IF f.isAutoApprove THEN "approved" ELSE "pending_tl",
   wfm_approved_at |-> IF f.isAutoApprove THEN tWfm ELSE NULL,
   tl_approved_at  |-> IF f.isAutoApprove THEN tTl ELSE NULL,
   created_at      |-> tCreated]

\* What the settings read hands back: the row's value, or undefined when the
\* read fails or finds no row (settings is then null).
SettingsValue(answered) ==
  IF answered /\ "wfm_auto_approve" \in DOMAIN settings
  THEN settings["wfm_auto_approve"] ELSE Undefined

\* handleSubmit: validation, the settings read, the insert. answered and
\* inserted are FALSE when the read, or the insert, returns an error. The
\* message handed to setError is the outcome recorded in last; the form is
\* left (navigate) after a successful insert.
CreateLeaveRequest_handleSubmit(leaveType, startDate, endDate, answered, inserted, tWfm, tTl, tCreated) ==
  /\ now <= tWfm /\ tWfm <= tTl /\ tTl <= tCreated
  /\ IF DatesMissing(startDate, endDate)
     THEN /\ last' = Last("createLeaveRequest", MissingDates, 0, Role(FormUser),
                          "", FALSE, NoRequest)
          /\ UNCHANGED <<now, leave_requests, rejectedFrom>>
     ELSE IF EndBeforeStart(startDate, endDate)
     THEN /\ last' = Last("createLeaveRequest", InvalidRange, 0, Role(FormUser),
                          "", FALSE, NoRequest)
          /\ UNCHANGED <<now, leave_requests, rejectedFrom>>
     ELSE LET f == [user |-> FormUser, leaveType |-> leaveType,
                    startDate |-> startDate, endDate |-> endDate,
                    isAutoApprove |-> IsAutoApprove(SettingsValue(answered))]
          IN IF inserted /\ Len(leave_requests) < MaxLeave
                THEN /\ now' = tCreated
                     /\ leave_requests' =
                          Append(leave_requests,
                                 NewLeaveRow(f, tWfm, tTl, tCreated))
                     /\ rejectedFrom' = Append(rejectedFrom, "")
                     /\ last' = Last("createLeaveRequest", OK,
                                     Len(leave_requests) + 1, Role(FormUser), "",
                                     f.isAutoApprove, NoRequest)
                ELSE /\ last' = Last("createLeaveRequest", InsertFailed, 0,
                                     Role(FormUser), "", f.isAutoApprove,
                                     NoRequest)
                     /\ UNCHANGED <<now, leave_requests, rejectedFrom>>
  /\ UNCHANGED <<settings, settingsPage>>
  /\ UNCHANGED swapVars

\* ------------------------------------------------------------ Settings page

\* fetchSettings: setAutoApprove(data?.value === 'true'); a failed read
\* (other than "not found") leaves the local state alone.
Settings_fetchSettings(answered) ==
  /\ settingsPage.loading
  /\ settingsPage' =
       [autoApprove |-> IF answered
                        THEN IsAutoApprove(SettingsValue(TRUE))
                        ELSE settingsPage.autoApprove,
        loading |-> FALSE]
  /\ UNCHANGED <<now, settings, leave_requests, rejectedFrom, last>>
  /\ UNCHANGED swapVars

FetchFailed == "Error fetching settings"

\* The effect of the page runs again whenever the auth context hands out a
\* new user object (each onAuthStateChange event sets a freshly fetched
\* profile): fetchSettings is called again on the mounted page. A failed read
\* is logged and leaves autoApprove as it was.
Settings_refetchSettings(answered) ==
  /\ ~settingsPage.loading
  /\ settingsPage' =
       [settingsPage EXCEPT !.autoApprove =
          IF answered THEN IsAutoApprove(SettingsValue(TRUE))
          ELSE settingsPage.autoApprove]
  /\ last' = Last("fetchSettings", IF answered THEN OK ELSE FetchFailed, 0,
                  "wfm", "", settingsPage'.autoApprove, NoRequest)
  /\ UNCHANGED <<now, settings, leave_requests, rejectedFrom>>
  /\ UNCHANGED swapVars

\* newValue.toString()
BoolToString(b) == IF b THEN "true" ELSE "false"

\* Mutant of Settings_handleToggle: switching the flag on also approves the
\* leave requests that wait for the team lead.
Settings_handleToggle_Retroactive(saved) ==
  /\ ~settingsPage.loading
  /\ saved
  /\ settings' = [k \in DOMAIN settings \cup {"wfm_auto_approve"} |->
                    IF k = "wfm_auto_approve"
                    THEN BoolToString(~settingsPage.autoApprove) ELSE settings[k]]
  /\ settingsPage' = [settingsPage EXCEPT !.autoApprove = ~settingsPage.autoApprove]
  /\ last' = Last("handleToggle", OK, 0, "wfm", "", ~settingsPage.autoApprove,
                  NoRequest)
  /\ leave_requests' =
       [i \in DOMAIN leave_requests |->
          IF ~settingsPage.autoApprove /\ leave_requests[i].status = "pending_tl"
          THEN [leave_requests[i] EXCEPT !.status = "approved",
                                         !.tl_approved_at = now,
                                         !.wfm_approved_at = now]
          ELSE leave_requests[i]]
  /\ UNCHANGED <<now, rejectedFrom>>
  /\ UNCHANGED swapVars

\* handleToggle: upsert of !autoApprove; saved is FALSE when it errors.
Settings_handleToggle(saved) ==
  /\ ~settingsPage.loading
  /\ LET newValue == ~settingsPage.autoApprove
     IN IF saved
        THEN /\ settings' = [k \in DOMAIN settings \cup {"wfm_auto_approve"} |->
                               IF k = "wfm_auto_approve"
                               THEN BoolToString(newValue) ELSE settings[k]]
             /\ settingsPage' = [settingsPage EXCEPT !.autoApprove = newValue]
             /\ last' = Last("handleToggle", OK, 0, "wfm", "", newValue, NoRequest)
        ELSE /\ last' = Last("handleToggle", "Failed to save settings", 0, "wfm",
                             "", settingsPage.autoApprove, NoRequest)
             /\ UNCHANGED <<settings, settingsPage>>
  /\ UNCHANGED <<now, leave_requests, rejectedFrom>>
  /\ UNCHANGED swapVars

\* ------------------------------------------------ settings row security

\* "Anyone can view settings": FOR SELECT USING (true).
SettingsSelectPolicy(actor) == TRUE

\* Mutant of SettingsUpdatePolicy: team leads are admitted too.
SettingsUpdatePolicy_Managers(actor) == Role(actor) \in {"wfm", "tl"}

\* "Only WFM can update settings": the signed-in user's role is 'wfm'.
SettingsUpdatePolicy(actor) == Role(actor) = "wfm"

\* "Only WFM can insert settings": the signed-in user's role is 'wfm'.
SettingsInsertPolicy(actor) == Role(actor) = "wfm"

SettingValues == {"true", "false"}

\* The settings table with the row of key wfm_auto_approve set to value.
SettingsWith(value) ==
  [k \in DOMAIN settings \cup {"wfm_auto_approve"} |->
     IF k = "wfm_auto_approve" THEN value ELSE settings[k]]

\* A signed-in user's upsert of the wfm_auto_approve row, sent to the store
\* from any client: the proposed row must pass the insert policy and the
\* existing row the update policy.
settings_upsert(actor, value) ==
  /\ IF SettingsInsertPolicy(actor) /\ SettingsUpdatePolicy(actor)
     THEN /\ settings' = SettingsWith(value)
          /\ last' = Last("settings_upsert", OK, 0, Role(actor), value,
                          IsAutoApprove(value), NoRequest)
     ELSE /\ last' = Last("settings_upsert", Unauthorized, 0, Role(actor), value,
                          IsAutoApprove(SettingsValue(TRUE)), NoRequest)
          /\ UNCHANGED settings
  /\ UNCHANGED <<now, leave_requests, settingsPage, rejectedFrom>>
  /\ UNCHANGED swapVars

\* A signed-in user's plain update of the wfm_auto_approve row: the update
\* policy alone decides.
settings_update(actor, value) ==
  /\ IF SettingsUpdatePolicy(actor)
     THEN /\ settings' = SettingsWith(value)
          /\ last' = Last("settings_update", OK, 0, Role(actor), value,
                          IsAutoApprove(value), NoRequest)
     ELSE /\ last' = Last("settings_update", Unauthorized, 0, Role(actor), value,
                          IsAutoApprove(SettingsValue(TRUE)), NoRequest)
          /\ UNCHANGED settings
  /\ UNCHANGED <<now, leave_requests, settingsPage, rejectedFrom>>
  /\ UNCHANGED swapVars

\* A signed-in user's read of the wfm_auto_approve row.
settings_select(actor) ==
  /\ last' = IF SettingsSelectPolicy(actor)
             THEN Last("settings_select", OK, 0, Role(actor), "",
                       IsAutoApprove(SettingsValue(TRUE)), NoRequest)
             ELSE Last("settings_select", Unauthorized, 0, Role(actor), "",
                       FALSE, NoRequest)
  /\ UNCHANGED <<now, settings, leave_requests, settingsPage, rejectedFrom>>
  /\ UNCHANGED swapVars

\* ------------------------------------------------- leave decision transitions

\* Mutant of Terminal: a rejected request is not taken as final.
Terminal_ApprovedOnly(status) == status = "approved"

Terminal(status) == status \in {"approved", "rejected"}

\* Mutant of RoleAllowed: a team lead may also take the final decision.
RoleAllowed_TlFinal(status, role) ==
  status \in {"pending_tl", "pending_wfm"} /\ role \in {"tl", "wfm"}

\* Mutant of RoleAllowed: the role is not looked at.
RoleAllowed_Anyone(status, role) ==
  status \in {"pending_tl", "pending_wfm"}

\* Role requirement of the stage a request is in.
RoleAllowed(status, role) ==
  CASE status = "pending_tl"  -> role \in {"tl", "wfm"}
    [] status = "pending_wfm" -> role = "wfm"
    [] OTHER                  -> FALSE

\* Mutant of Decided: the team lead's approval is final.
Decided_TlApproves(r, decision, t) ==
  CASE r.status = "pending_tl" /\ decision = "approve" ->
         [r EXCEPT !.status = "approved", !.tl_approved_at = t]
    [] r.status = "pending_tl" /\ decision = "reject" ->
         [r EXCEPT !.status = "rejected", !.tl_approved_at = t]
    [] r.status = "pending_wfm" /\ decision = "approve" ->
         [r EXCEPT !.status = "approved", !.wfm_approved_at = t]
    [] r.status = "pending_wfm" /\ decision = "reject" ->
         [r EXCEPT !.status = "rejected", !.wfm_approved_at = t]
    [] OTHER -> r

\* Mutant of Decided: a rejection always stamps the team-lead column.
Decided_RejectStampsTl(r, decision, t) ==
  CASE r.status = "pending_tl" /\ decision = "approve" ->
         [r EXCEPT !.status = "pending_wfm", !.tl_approved_at = t]
    [] r.status = "pending_tl" /\ decision = "reject" ->
         [r EXCEPT !.status = "rejected", !.tl_approved_at = t]
    [] r.status = "pending_wfm" /\ decision = "approve" ->
         [r EXCEPT !.status = "approved", !.wfm_approved_at = t]
    [] r.status = "pending_wfm" /\ decision = "reject" ->
         [r EXCEPT !.status = "rejected", !.tl_approved_at = t]
    [] OTHER -> r

\* The row after a permitted decision taken at instant t.
Decided(r, decision, t) ==
  CASE r.status = "pending_tl" /\ decision = "approve" ->
         [r EXCEPT !.status = "pending_wfm", !.tl_approved_at = t]
    [] r.status = "pending_tl" /\ decision = "reject" ->
         [r EXCEPT !.status = "rejected", !.tl_approved_at = t]
    [] r.status = "pending_wfm" /\ decision = "approve" ->
         [r EXCEPT !.status = "approved", !.wfm_approved_at = t]
    [] r.status = "pending_wfm" /\ decision = "reject" ->
         [r EXCEPT !.status = "rejected", !.wfm_approved_at = t]
    [] OTHER -> r

decideLeaveRequest(id, role, decision, t) ==
  /\ now <= t
  /\ IF id \notin DOMAIN leave_requests
     THEN /\ last' = Last("decideLeaveRequest", NotFound, id, role, decision,
                          FALSE, NoRequest)
          /\ UNCHANGED <<now, leave_requests, rejectedFrom>>
     ELSE LET r == leave_requests[id]
          IN IF Terminal(r.status)
             THEN /\ last' = Last("decideLeaveRequest", TerminalState, id, role,
                                  decision, FALSE, r)
                  /\ UNCHANGED <<now, leave_requests, rejectedFrom>>
             ELSE IF ~RoleAllowed(r.status, role)
             THEN /\ last' = Last("decideLeaveRequest", Unauthorized, id, role,
                                  decision, FALSE, r)
                  /\ UNCHANGED <<now, leave_requests, rejectedFrom>>
             ELSE /\ now' = t
                  /\ leave_requests' =
                       [leave_requests EXCEPT ![id] = Decided(r, decision, t)]
                  /\ rejectedFrom' =
                       [rejectedFrom EXCEPT ![id] =
                          IF decision = "reject" THEN r.status ELSE @]
                  /\ last' = Last("decideLeaveRequest", OK, id, role, decision,
                                  FALSE, r)
  /\ UNCHANGED <<settings, settingsPage>>
  /\ UNCHANGED swapVars

\* -------------------------------------------------- CreateSwapRequest form

SHIFT_TYPES == {"AM", "PM", "BET", "OFF"}

ShiftIds == {"s1", "s2", "s3"}

\* new Date().toISOString().split('T')[0] on the day the form is opened, and
\* the last day the form is left open to.
Today == 2
LastDay == Today + 1

\* The shifts table as the form finds it: one coming shift of agent1, one
\* coming and one past shift of agent2.
InitialShifts ==
  [id \in ShiftIds |->
     CASE id = "s1" -> [user_id |-> "agent1", date |-> Today, shift_type |-> "AM"]
       [] id = "s2" -> [user_id |-> "agent2", date |-> Today + 1, shift_type |-> "PM"]
       [] OTHER     -> [user_id |-> "agent2", date |-> Today - 1, shift_type |-> "OFF"]]

\* Mutant of AgentsQuery: the signed-in user is not filtered out.
AgentsQuery_WithSelf(userId) ==
  {u \in users : Role(u) = "agent"}

\* .from('users').select('*').eq('role', 'agent').neq('id', user!.id)
AgentsQuery(userId) ==
  {u \in users : Role(u) = "agent" /\ u # userId}

\* .from('shifts').select('*').eq('user_id', userId).gte('date', today)
ShiftsQuery(userId, day) ==
  {id \in ShiftIds : shifts[id].user_id = userId /\ shifts[id].date >= day}

\* The component as it mounts: its useState defaults.
MountedSwapForm ==
  [mounted |-> TRUE, agents |-> {}, targetUserId |-> "", myShifts |-> {},
   targetShifts |-> {}, myShiftId |-> "", targetShiftId |-> "",
   loadingAgents |-> TRUE, loadingShifts |-> FALSE]

UnmountedSwapForm == [MountedSwapForm EXCEPT !.mounted = FALSE]

NoFetches == [agents |-> {}, myShifts |-> {}, targetShifts |-> {}]

\* useEffect(..., [user]): fetchAgents() and fetchMyShifts() are called with
\* the user of that render.
UserEffect(fetches, userId) ==
  [fetches EXCEPT !.agents = @ \cup {userId}, !.myShifts = @ \cup {userId}]

CanFetch(kind) == Cardinality(swapFetches[kind]) < MaxInFlight

\* The route is entered: the component mounts and its effects run.
CreateSwapRequest_mount ==
  /\ ~swapForm.mounted
  /\ Len(swap_requests) < MaxSwap
  /\ swapForm' = MountedSwapForm
  /\ swapFetches' = UserEffect(NoFetches, authUser)
  /\ UNCHANGED <<authUser, today, shifts, swap_requests, swapLast>>
  /\ UNCHANGED <<leaveVars, swapDeciding, users, auth, authRun>>

\* Midnight passes while the form is open: new Date() shows the next day.
Midnight ==
  /\ swapForm.mounted
  /\ today < LastDay
  /\ today' = today + 1
  /\ UNCHANGED <<authUser, shifts, swap_requests, swapForm, swapFetches, swapLast>>
  /\ UNCHANGED <<leaveVars, swapDeciding, users, auth, authRun>>

\* onAuthStateChange with a session of user u whose profile is fetched:
\* setUser(profile). The mounted form keeps its state and its [user] effect
\* runs again.
AuthProvider_onAuthStateChange(u) ==
  /\ swapForm.mounted
  /\ CanFetch("agents") /\ CanFetch("myShifts")
  /\ authUser' = u
  /\ swapForm' = [swapForm EXCEPT !.loadingAgents = TRUE]
  /\ swapFetches' = UserEffect(swapFetches, u)
  /\ UNCHANGED <<today, shifts, swap_requests, swapLast>>
  /\ UNCHANGED <<leaveVars, swapDeciding, users, auth, authRun>>

\* fetchAgents from its await on, for the call made for userId; answered is
\* FALSE when the query returns an error.
CreateSwapRequest_fetchAgents(userId, answered) ==
  /\ swapForm.mounted
  /\ userId \in swapFetches.agents
  /\ swapFetches' = [swapFetches EXCEPT !.agents = @ \ {userId}]
  /\ swapForm' = [swapForm EXCEPT
                    !.agents = IF answered THEN AgentsQuery(userId) ELSE @,
                    !.loadingAgents = FALSE]
  /\ UNCHANGED <<authUser, today, shifts, swap_requests, swapLast>>
  /\ UNCHANGED <<leaveVars, swapDeciding, users, auth, authRun>>

\* fetchMyShifts from its await on, for the call made for userId.
CreateSwapRequest_fetchMyShifts(userId, answered) ==
  /\ swapForm.mounted
  /\ userId \in swapFetches.myShifts
  /\ swapFetches' = [swapFetches EXCEPT !.myShifts = @ \ {userId}]
  /\ swapForm' = [swapForm EXCEPT
                    !.myShifts = IF answered THEN ShiftsQuery(userId, today)
                                 ELSE @]
  /\ UNCHANGED <<authUser, today, shifts, swap_requests, swapLast>>
  /\ UNCHANGED <<leaveVars, swapDeciding, users, auth, authRun>>

\* The colleague select changes: setTargetUserId(value), then the
\* [targetUserId] effect: fetchTargetShifts() up to its await, or the reset
\* of the target shifts when the empty option is chosen.
CreateSwapRequest_setTargetUserId(value) ==
  /\ swapForm.mounted
  /\ ~swapForm.loadingAgents
  /\ value \in swapForm.agents \cup {""}
  /\ value # swapForm.targetUserId
  /\ IF value # ""
     THEN /\ CanFetch("targetShifts")
          /\ swapForm' = [swapForm EXCEPT !.targetUserId = value,
                                          !.loadingShifts = TRUE]
          /\ swapFetches' = [swapFetches EXCEPT !.targetShifts = @ \cup {value}]
     ELSE /\ swapForm' = [swapForm EXCEPT !.targetUserId = value,
                                          !.targetShifts = {},
                                          !.targetShiftId = ""]
          /\ UNCHANGED swapFetches
  /\ UNCHANGED <<authUser, today, shifts, swap_requests, swapLast>>
  /\ UNCHANGED <<leaveVars, swapDeciding, users, auth, authRun>>

\* fetchTargetShifts from its await on, for the call made for targetUserId.
CreateSwapRequest_fetchTargetShifts(targetUserId, answered) ==
  /\ swapForm.mounted
  /\ targetUserId \in swapFetches.targetShifts
  /\ swapFetches' = [swapFetches EXCEPT !.targetShifts = @ \ {targetUserId}]
  /\ swapForm' = IF answered
                 THEN [swapForm EXCEPT
                         !.targetShifts = ShiftsQuery(targetUserId, today),
                         !.targetShiftId = "",
                         !.loadingShifts = FALSE]
                 ELSE [swapForm EXCEPT !.loadingShifts = FALSE]
  /\ UNCHANGED <<authUser, today, shifts, swap_requests, swapLast>>
  /\ UNCHANGED <<leaveVars, swapDeciding, users, auth, authRun>>

\* The "Your Shift Date" select changes.
CreateSwapRequest_setMyShiftId(value) ==
  /\ swapForm.mounted
  /\ value \in swapForm.myShifts \cup {""}
  /\ value # swapForm.myShiftId
  /\ swapForm' = [swapForm EXCEPT !.myShiftId = value]
  /\ UNCHANGED <<authUser, today, shifts, swap_requests, swapFetches, swapLast>>
  /\ UNCHANGED <<leaveVars, swapDeciding, users, auth, authRun>>

\* The "Their Shift Date" select changes (rendered when the shifts are not
\* loading, disabled while no colleague is chosen).
CreateSwapRequest_setTargetShiftId(value) ==
  /\ swapForm.mounted
  /\ ~swapForm.loadingShifts
  /\ swapForm.targetUserId # ""
  /\ value \in swapForm.targetShifts \cup {""}
  /\ value # swapForm.targetShiftId
  /\ swapForm' = [swapForm EXCEPT !.targetShiftId = value]
  /\ UNCHANGED <<authUser, today, shifts, swap_requests, swapFetches, swapLast>>
  /\ UNCHANGED <<leaveVars, swapDeciding, users, auth, authRun>>

\* disabled={loading || !targetUserId || !myShiftId || !targetShiftId}
SubmitDisabled ==
  \/ swapForm.targetUserId = ""
  \/ swapForm.myShiftId = ""
  \/ swapForm.targetShiftId = ""

\* Mutant of NewSwapRow: the auto-approve setting decides the first status.
NewSwapRow_AutoApproved ==
  [requester_id                  |-> authUser,
   target_user_id                |-> swapForm.targetUserId,
   requester_shift_id            |-> swapForm.myShiftId,
   target_shift_id               |-> swapForm.targetShiftId,
   status                        |-> IF IsAutoApprove(SettingsValue(TRUE))
                                     THEN "approved" ELSE "pending_acceptance",
   requester_original_date       |-> NULL,
   requester_original_shift_type |-> "",
   target_original_date          |-> NULL,
   target_original_shift_type    |-> ""]

\* The row handed to .insert(...); the original_* columns are not given.
NewSwapRow ==
  [requester_id                  |-> authUser,
   target_user_id                |-> swapForm.targetUserId,
   requester_shift_id            |-> swapForm.myShiftId,
   target_shift_id               |-> swapForm.targetShiftId,
   status                        |-> "pending_acceptance",
   requester_original_date       |-> NULL,
   requester_original_shift_type |-> "",
   target_original_date          |-> NULL,
   target_original_shift_type    |-> ""]

\* The messages the swap form shows.
NoTargetUser  == "Please select a target user"
NoMyShift     == "Please select your shift date"
NoTargetShift == "Please select their shift date"
SwapFailed    == "Failed to create swap request. Please try again."

\* handleSubmit; inserted is FALSE when the insert returns an error. The
\* message handed to setError is the outcome recorded in swapLast. After the
\* insert the form is left (navigate) and unmounts.
CreateSwapRequest_handleSubmit(inserted) ==
  /\ swapForm.mounted
  /\ ~SubmitDisabled
  /\ IF swapForm.targetUserId = ""
     THEN /\ swapLast' = [op |-> "createSwapRequest", outcome |-> NoTargetUser]
          /\ UNCHANGED <<swap_requests, swapForm, swapFetches>>
     ELSE IF swapForm.myShiftId = ""
     THEN /\ swapLast' = [op |-> "createSwapRequest", outcome |-> NoMyShift]
          /\ UNCHANGED <<swap_requests, swapForm, swapFetches>>
     ELSE IF swapForm.targetShiftId = ""
     THEN /\ swapLast' = [op |-> "createSwapRequest", outcome |-> NoTargetShift]
          /\ UNCHANGED <<swap_requests, swapForm, swapFetches>>
     ELSE IF inserted /\ Len(swap_requests) < MaxSwap
     THEN /\ swap_requests' = Append(swap_requests, NewSwapRow)
          /\ swapForm' = UnmountedSwapForm
          /\ swapFetches' = NoFetches
          /\ swapLast' = [op |-> "createSwapRequest", outcome |-> OK]
     ELSE /\ swapLast' = [op |-> "createSwapRequest", outcome |-> SwapFailed]
          /\ UNCHANGED <<swap_requests, swapForm, swapFetches>>
  /\ UNCHANGED <<authUser, today, shifts>>
  /\ UNCHANGED <<leaveVars, swapDeciding, users, auth, authRun>>

\* ------------------------------------------------- swap request transitions

SwapRequestStatus ==
  {"pending_acceptance", "pending_approval", "approved", "rejected", "declined"}

SwapTerminal(status) == status \in {"approved", "rejected", "declined"}

\* A transition asked of a request that is in no state to take it.
InvalidTransition == "InvalidTransition"

\* Policy "Users can update swap requests they're involved in", FOR UPDATE
\* USING (auth.uid() = requester_id OR auth.uid() = target_user_id OR EXISTS
\* (SELECT 1 FROM users WHERE id = auth.uid() AND role IN ('wfm', 'tl'))).
SwapUpdatePolicy(actor, r) ==
  \/ actor = r.requester_id
  \/ actor = r.target_user_id
  \/ Role(actor) \in {"wfm", "tl"}

\* Mutant of Responded: an acceptance is taken as the final approval.
Responded_AcceptApproves(r, accept) ==
  [r EXCEPT !.status = IF accept THEN "approved" ELSE "declined"]

\* The row after the target's answer.
Responded(r, accept) ==
  [r EXCEPT !.status = IF accept THEN "pending_approval" ELSE "declined"]

\* Mutant of SwapDecided: the status write is left out.
SwapDecided_StatusKept(r, decision) == r

\* The row after a decision.
SwapDecided(r, decision) ==
  [r EXCEPT !.status = IF decision = "approve" THEN "approved" ELSE "rejected"]

\* Mutant of Exchanged: only the requester's shift changes hands.
Exchanged_OneSided(sh, a, b) ==
  [id \in DOMAIN sh |->
     IF id = a THEN [sh[id] EXCEPT !.user_id = sh[b].user_id] ELSE sh[id]]

\* The shift-ownership exchange: the two shifts swap their owning users.
Exchanged(sh, a, b) ==
  [id \in DOMAIN sh |->
     IF id = a THEN [sh[id] EXCEPT !.user_id = sh[b].user_id]
     ELSE IF id = b THEN [sh[id] EXCEPT !.user_id = sh[a].user_id]
     ELSE sh[id]]

NoSwapRequest ==
  [requester_id |-> "", target_user_id |-> "", requester_shift_id |-> "",
   target_shift_id |-> "", status |-> "", requester_original_date |-> NULL,
   requester_original_shift_type |-> "", target_original_date |-> NULL,
   target_original_shift_type |-> ""]

SwapLast(op, outcome, id, actor, arg, before) ==
  [op |-> op, outcome |-> outcome, id |-> id, actor |-> actor, arg |-> arg,
   before |-> before]

\* respondToSwapRequest: the transition is the specification's; whether the
\* write of actor is let through is the update policy's.
respondToSwapRequest(id, actor, accept) ==
  /\ IF id \notin DOMAIN swap_requests
     THEN /\ swapLast' = SwapLast("respondToSwapRequest", NotFound, id, actor,
                                  accept, NoSwapRequest)
          /\ UNCHANGED swap_requests
     ELSE LET r == swap_requests[id]
          IN IF SwapTerminal(r.status)
             THEN /\ swapLast' = SwapLast("respondToSwapRequest", TerminalState,
                                          id, actor, accept, r)
                  /\ UNCHANGED swap_requests
             ELSE IF r.status # "pending_acceptance"
             THEN /\ swapLast' = SwapLast("respondToSwapRequest",
                                          InvalidTransition, id, actor, accept, r)
                  /\ UNCHANGED swap_requests
             ELSE IF ~SwapUpdatePolicy(actor, r)
             THEN /\ swapLast' = SwapLast("respondToSwapRequest", Unauthorized,
                                          id, actor, accept, r)
                  /\ UNCHANGED swap_requests
             ELSE /\ swap_requests' =
                       [swap_requests EXCEPT ![id] = Responded(r, accept)]
                  /\ swapLast' = SwapLast("respondToSwapRequest", OK, id, actor,
                                          accept, r)
  /\ UNCHANGED <<authUser, today, shifts, swapForm, swapFetches>>
  /\ UNCHANGED <<leaveVars, swapDeciding, users, auth, authRun>>

\* Mutant of decideSwapRequest: a rejection exchanges the shifts too.
decideSwapRequest_ExchangesOnReject(id, actor, decision) ==
  /\ IF id \notin DOMAIN swap_requests
     THEN /\ swapLast' = SwapLast("decideSwapRequest", NotFound, id, actor,
                                  decision, NoSwapRequest)
          /\ UNCHANGED <<swap_requests, shifts>>
     ELSE LET r == swap_requests[id]
          IN IF SwapTerminal(r.status)
             THEN /\ swapLast' = SwapLast("decideSwapRequest", TerminalState, id,
                                          actor, decision, r)
                  /\ UNCHANGED <<swap_requests, shifts>>
             ELSE IF r.status # "pending_approval"
             THEN /\ swapLast' = SwapLast("decideSwapRequest", InvalidTransition,
                                          id, actor, decision, r)
                  /\ UNCHANGED <<swap_requests, shifts>>
             ELSE IF ~SwapUpdatePolicy(actor, r)
             THEN /\ swapLast' = SwapLast("decideSwapRequest", Unauthorized, id,
                                          actor, decision, r)
                  /\ UNCHANGED <<swap_requests, shifts>>
             ELSE /\ swap_requests' =
                       [swap_requests EXCEPT ![id] = SwapDecided(r, decision)]
                  /\ shifts' = Exchanged(shifts, r.requester_shift_id,
                                         r.target_shift_id)
                  /\ swapLast' = SwapLast("decideSwapRequest", OK, id, actor,
                                          decision, r)
  /\ UNCHANGED <<authUser, today, swapForm, swapFetches>>
  /\ UNCHANGED <<leaveVars, swapDeciding, users, auth, authRun>>

\* decideSwapRequest: the new status and the shift-ownership exchange are
\* applied as one unit.
decideSwapRequest(id, actor, decision) ==
  /\ IF id \notin DOMAIN swap_requests
     THEN /\ swapLast' = SwapLast("decideSwapRequest", NotFound, id, actor,
                                  decision, NoSwapRequest)
          /\ UNCHANGED <<swap_requests, shifts>>
     ELSE LET r == swap_requests[id]
          IN IF SwapTerminal(r.status)
             THEN /\ swapLast' = SwapLast("decideSwapRequest", TerminalState, id,
                                          actor, decision, r)
                  /\ UNCHANGED <<swap_requests, shifts>>
             ELSE IF r.status # "pending_approval"
             THEN /\ swapLast' = SwapLast("decideSwapRequest", InvalidTransition,
                                          id, actor, decision, r)
                  /\ UNCHANGED <<swap_requests, shifts>>
             ELSE IF ~SwapUpdatePolicy(actor, r)
             THEN /\ swapLast' = SwapLast("decideSwapRequest", Unauthorized, id,
                                          actor, decision, r)
                  /\ UNCHANGED <<swap_requests, shifts>>
             ELSE /\ swap_requests' =
                       [swap_requests EXCEPT ![id] = SwapDecided(r, decision)]
                  /\ shifts' = IF decision = "approve"
                               THEN Exchanged(shifts, r.requester_shift_id,
                                              r.target_shift_id)
                               ELSE shifts
                  /\ swapLast' = SwapLast("decideSwapRequest", OK, id, actor,
                                          decision, r)
  /\ UNCHANGED <<authUser, today, swapForm, swapFetches>>
  /\ UNCHANGED <<leaveVars, swapDeciding, users, auth, authRun>>

\* ------------------------------------------- concurrent swap decisions

\* The managers who decide, each at a page of their own; a page has at most
\* one decision under way.
Deciders == {"tl1", "wfm1"}

NoDecision == [id |-> 0, decision |-> ""]

ConflictError == "ConflictError"

\* Mutant of Conflict: the status is written without being compared.
Conflict_Never(seen, current) == FALSE

\* saveRequestTransition compares the status the decision was taken on with
\* the stored one.
Conflict(seen, current) == seen # current

\* A decision, first half: findRequestById and the validation of the
\* transition against the row that was read. A decision that validates is
\* held by the manager's page until it is saved.
decideSwapRequest_read(m, id, decision) ==
  /\ swapDeciding[m] = NoDecision
  /\ IF id \notin DOMAIN swap_requests
     THEN /\ swapLast' = SwapLast("decideSwapRequest", NotFound, id, m, decision,
                                  NoSwapRequest)
          /\ UNCHANGED swapDeciding
     ELSE LET r == swap_requests[id]
          IN IF SwapTerminal(r.status)
             THEN /\ swapLast' = SwapLast("decideSwapRequest", TerminalState, id,
                                          m, decision, r)
                  /\ UNCHANGED swapDeciding
             ELSE IF r.status # "pending_approval"
             THEN /\ swapLast' = SwapLast("decideSwapRequest", InvalidTransition,
                                          id, m, decision, r)
                  /\ UNCHANGED swapDeciding
             ELSE /\ swapDeciding' =
                       [swapDeciding EXCEPT ![m] = [id |-> id, decision |-> decision]]
                  /\ UNCHANGED swapLast
  /\ UNCHANGED <<authUser, today, shifts, swap_requests, swapForm, swapFetches>>
  /\ UNCHANGED <<leaveVars, users, auth, authRun>>

\* A decision, second half: saveRequestTransition of the status decided on
\* the row read as pending_approval, with the shift-ownership exchange, as
\* one unit.
saveRequestTransition(m) ==
  /\ swapDeciding[m] # NoDecision
  /\ LET id == swapDeciding[m].id
         decision == swapDeciding[m].decision
         r == swap_requests[id]
     IN IF ~SwapUpdatePolicy(m, r)
        THEN /\ swapLast' = SwapLast("saveRequestTransition", Unauthorized, id, m,
                                     decision, r)
             /\ UNCHANGED <<swap_requests, shifts>>
        ELSE IF Conflict("pending_approval", r.status)
        THEN /\ swapLast' = SwapLast("saveRequestTransition", ConflictError, id,
                                     m, decision, r)
             /\ UNCHANGED <<swap_requests, shifts>>
        ELSE /\ swap_requests' =
                  [swap_requests EXCEPT ![id] = SwapDecided(r, decision)]
             /\ shifts' = IF decision = "approve"
                          THEN Exchanged(shifts, r.requester_shift_id,
                                         r.target_shift_id)
                          ELSE shifts
             /\ swapLast' = SwapLast("saveRequestTransition", OK, id, m,
                                     decision, r)
  /\ swapDeciding' = [swapDeciding EXCEPT ![m] = NoDecision]
  /\ UNCHANGED <<authUser, today, swapForm, swapFetches>>
  /\ UNCHANGED <<leaveVars, users, auth, authRun>>

\* --------------------------------------------------------- AuthProvider

NoSession == ""

\* The accounts that sign in at this browser.
AuthSessions == {"agent1"}

\* useState defaults: user, supabaseUser and session null, loading true.
InitialAuth ==
  [user |-> NoSession, supabaseUser |-> NoSession, session |-> NoSession,
   loading |-> TRUE]

\* The state once u is signed in and every callback has settled.
SignedInAuth(u) ==
  [user |-> u, supabaseUser |-> u, session |-> u, loading |-> FALSE]

\* stored: the session the auth client holds; init: how far initializeAuth
\* has run; signingOut: signOut is at its await; fetches: the fetchUserProfile
\* calls under way, each with the callback that awaits it; signedOut: signOut
\* has completed and nothing has signed in or refreshed the session since.
SettledRun(u) ==
  [stored |-> u, init |-> "done", signingOut |-> FALSE, fetches |-> {},
   signedOut |-> FALSE]

\* initializeAuth up to its second await: getSession answers with the stored
\* session, or throws.
AuthProvider_initializeAuth(ok) ==
  /\ authRun.init = "getSession"
  /\ IF ok /\ authRun.stored # NoSession
     THEN /\ auth' = [auth EXCEPT !.session = authRun.stored,
                                  !.supabaseUser = authRun.stored]
          /\ authRun' = [authRun EXCEPT
                           !.init = "profile",
                           !.fetches = @ \cup {[by |-> "initializeAuth",
                                                id |-> authRun.stored]}]
     ELSE /\ auth' = IF ok
                     THEN [auth EXCEPT !.session = NoSession,
                                       !.supabaseUser = NoSession,
                                       !.loading = FALSE]
                     ELSE [auth EXCEPT !.loading = FALSE]
          /\ authRun' = [authRun EXCEPT !.init = "done"]
  /\ UNCHANGED <<leaveVars, authUser, today, shifts, swap_requests, swapForm>>
  /\ UNCHANGED <<swapFetches, swapLast, swapDeciding, users>>

\* The onAuthStateChange handler called with the stored session (a sign-in
\* seen by the client, a refreshed token): session and supabaseUser are set
\* and the profile fetch starts.
AuthProvider_onAuthStateChange_session ==
  /\ authRun.stored # NoSession
  /\ ~authRun.signingOut
  /\ auth' = [auth EXCEPT !.session = authRun.stored,
                          !.supabaseUser = authRun.stored]
  /\ authRun' = [authRun EXCEPT
                   !.fetches = @ \cup {[by |-> "onAuthStateChange",
                                        id |-> authRun.stored]},
                   !.signedOut = FALSE]
  /\ UNCHANGED <<leaveVars, authUser, today, shifts, swap_requests, swapForm>>
  /\ UNCHANGED <<swapFetches, swapLast, swapDeciding, users>>

\* A fetchUserProfile call answers: found is FALSE when it returns null. The
\* callback that awaited it goes on: setUser(profile), and setLoading(false)
\* (in the handler, and in the finally block of initializeAuth).
AuthProvider_fetchUserProfile(f, found) ==
  /\ f \in authRun.fetches
  /\ auth' = [auth EXCEPT !.user = IF found THEN f.id ELSE NoSession,
                          !.loading = IF f.by = "signIn" THEN @ ELSE FALSE]
  /\ authRun' = [authRun EXCEPT
                   !.fetches = @ \ {f},
                   !.init = IF f.by = "initializeAuth" THEN "done" ELSE @]
  /\ UNCHANGED <<leaveVars, authUser, today, shifts, swap_requests, swapForm>>
  /\ UNCHANGED <<swapFetches, swapLast, swapDeciding, users>>

\* signIn from the login page: signInWithPassword answers with a session for
\* u (ok) or with an error; with a session, session and supabaseUser are set
\* and the profile fetch starts.
AuthProvider_signIn(u, ok) ==
  /\ ~auth.loading /\ auth.user = NoSession
  /\ ~authRun.signingOut
  /\ IF ok
     THEN /\ auth' = [auth EXCEPT !.session = u, !.supabaseUser = u]
          /\ authRun' = [authRun EXCEPT
                           !.stored = u,
                           !.fetches = @ \cup {[by |-> "signIn", id |-> u]},
                           !.signedOut = FALSE]
     ELSE UNCHANGED <<auth, authRun>>
  /\ UNCHANGED <<leaveVars, authUser, today, shifts, swap_requests, swapForm>>
  /\ UNCHANGED <<swapFetches, swapLast, swapDeciding, users>>

\* signOut up to its await, called from a page shown to a signed-in user.
AuthProvider_signOut_begin ==
  /\ ~auth.loading /\ auth.user # NoSession
  /\ ~authRun.signingOut
  /\ auth' = [auth EXCEPT !.loading = TRUE]
  /\ authRun' = [authRun EXCEPT !.signingOut = TRUE]
  /\ UNCHANGED <<leaveVars, authUser, today, shifts, swap_requests, swapForm>>
  /\ UNCHANGED <<swapFetches, swapLast, swapDeciding, users>>

\* signOut from its await on: the backend call succeeds (the stored session
\* is dropped and the handler is called with a null session) or throws; the
\* finally block clears user, supabaseUser and session and ends loading.
AuthProvider_signOut_finally(ok) ==
  /\ authRun.signingOut
  /\ auth' = [user |-> NoSession, supabaseUser |-> NoSession,
              session |-> NoSession, loading |-> FALSE]
  /\ authRun' = [authRun EXCEPT
                   !.signingOut = FALSE,
                   !.stored = IF ok THEN NoSession ELSE @,
                   !.signedOut = TRUE]
  /\ UNCHANGED <<leaveVars, authUser, today, shifts, swap_requests, swapForm>>
  /\ UNCHANGED <<swapFetches, swapLast, swapDeciding, users>>

\* ProtectedRoute and PublicRoute: what each renders.
ProtectedRoute ==
  IF auth.loading THEN "spinner"
  ELSE IF auth.user = NoSession THEN "Navigate /login"
  ELSE "children"

PublicRoute ==
  IF auth.loading THEN "spinner"
  ELSE IF auth.user # NoSession THEN "Navigate /dashboard"
  ELSE "children"

\* Every callback of the provider has settled.
AuthSettled ==
  /\ authRun.init = "done"
  /\ ~authRun.signingOut
  /\ authRun.fetches = {}

\* ------------------------------------------------------------ specification

Init ==
  /\ now = 1
  /\ settings = [k \in {"wfm_auto_approve"} |-> "false"]
  /\ leave_requests = <<>>
  /\ settingsPage = [autoApprove |-> FALSE, loading |-> TRUE]
  /\ rejectedFrom = <<>>
  /\ last = Last("init", OK, 0, "", "", FALSE, NoRequest)
  /\ authUser = "agent1"
  /\ today = Today
  /\ shifts = InitialShifts
  /\ swap_requests = <<>>
  /\ swapForm = UnmountedSwapForm
  /\ swapFetches = NoFetches
  /\ swapLast = [op |-> "init", outcome |-> OK]
  /\ swapDeciding = [m \in Deciders |-> NoDecision]
  /\ users = Users
  /\ auth = SignedInAuth("agent1")
  /\ authRun = SettledRun("agent1")

\* The decision of a request that cannot be decided reads no clock.
Decidable(id, role) ==
  /\ id \in DOMAIN leave_requests
  /\ ~Terminal(leave_requests[id].status)
  /\ RoleAllowed(leave_requests[id].status, role)

\* <form onSubmit={handleSubmit}> with the two date inputs holding startDate
\* and endDate: the handler runs with whatever the settings read and the
\* insert answer. A run that returns at its validation reads no clock.
CreateLeaveRequest_onSubmit(startDate, endDate) ==
  IF DatesMissing(startDate, endDate) \/ EndBeforeStart(startDate, endDate)
  THEN \E lt \in LeaveTypeChoices :
         CreateLeaveRequest_handleSubmit(lt, startDate, endDate, TRUE, TRUE,
                                         now, now, now)
  ELSE \E lt \in LeaveTypeChoices, answered \in BOOLEAN, inserted \in BOOLEAN :
         IF inserted /\ Len(leave_requests) < MaxLeave
         THEN \E tWfm \in now..MaxClock : \E tTl \in tWfm..MaxClock :
                \E tCreated \in tTl..MaxClock :
                  CreateLeaveRequest_handleSubmit(lt, startDate, endDate,
                                                  answered, inserted, tWfm, tTl,
                                                  tCreated)
         ELSE CreateLeaveRequest_handleSubmit(lt, startDate, endDate, answered,
                                              inserted, now, now, now)

Next ==
  \/ \E s \in DateInputs, e \in DateInputs : CreateLeaveRequest_onSubmit(s, e)
  \/ \E answered \in BOOLEAN : Settings_fetchSettings(answered)
  \/ \E saved \in BOOLEAN : Settings_handleToggle(saved)
  \/ \E id \in 1..MaxLeave, role \in Roles, d \in {"approve", "reject"} :
       IF Decidable(id, role)
       THEN \E t \in now..MaxClock : decideLeaveRequest(id, role, d, t)
       ELSE decideLeaveRequest(id, role, d, now)

Spec == Init /\ [][Next]_vars

\* The settings table under its row-security policies: the leave form that
\* reads the flag, the workforce manager's page, and reads and writes sent by
\* any signed-in user.
NextSettings ==
  \/ \E s \in DateInputs, e \in DateInputs : CreateLeaveRequest_onSubmit(s, e)
  \/ \E answered \in BOOLEAN : Settings_fetchSettings(answered)
  \/ \E saved \in BOOLEAN : Settings_handleToggle(saved)
  \/ \E actor \in Users, value \in SettingValues : settings_upsert(actor, value)
  \/ \E actor \in Users, value \in SettingValues : settings_update(actor, value)
  \/ \E actor \in Users : settings_select(actor)

SpecSettings == Init /\ [][NextSettings]_vars

\* A swap request of agent1 to agent2 as the table holds it in the given
\* status.
StoredSwapRow(status) ==
  [requester_id                  |-> "agent1",
   target_user_id                |-> "agent2",
   requester_shift_id            |-> "s1",
   target_shift_id               |-> "s2",
   status                        |-> status,
   requester_original_date       |-> NULL,
   requester_original_shift_type |-> "",
   target_original_date          |-> NULL,
   target_original_shift_type    |-> ""]

\* The tables when the settings page is opened with a swap request already
\* stored, in any of its statuses; its shifts are exchanged if it is approved.
InitToggle ==
  /\ now = 1
  /\ settings = [k \in {"wfm_auto_approve"} |-> "false"]
  /\ leave_requests = <<>>
  /\ settingsPage = [autoApprove |-> FALSE, loading |-> TRUE]
  /\ rejectedFrom = <<>>
  /\ last = Last("init", OK, 0, "", "", FALSE, NoRequest)
  /\ authUser = "agent1"
  /\ today = Today
  /\ \E status \in SwapRequestStatus :
       /\ swap_requests = <<StoredSwapRow(status)>>
       /\ shifts = IF status = "approved"
                   THEN Exchanged(InitialShifts, "s1", "s2")
                   ELSE InitialShifts
  /\ swapForm = UnmountedSwapForm
  /\ swapFetches = NoFetches
  /\ swapLast = [op |-> "init", outcome |-> OK]
  /\ swapDeciding = [m \in Deciders |-> NoDecision]
  /\ users = Users
  /\ auth = SignedInAuth("agent1")
  /\ authRun = SettledRun("agent1")

\* The settings page toggled while leave requests are created and a swap
\* request is stored.
NextToggle ==
  \/ \E s \in DateInputs, e \in DateInputs : CreateLeaveRequest_onSubmit(s, e)
  \/ \E answered \in BOOLEAN : Settings_fetchSettings(answered)
  \/ \E saved \in BOOLEAN : Settings_handleToggle(saved)

SpecToggle == InitToggle /\ [][NextToggle]_vars

\* The settings page of the workforce manager, fetched again on auth events,
\* and the leave form that reads the flag.
NextSettingsView ==
  \/ \E s \in DateInputs, e \in DateInputs : CreateLeaveRequest_onSubmit(s, e)
  \/ \E answered \in BOOLEAN : Settings_fetchSettings(answered)
  \/ \E answered \in BOOLEAN : Settings_refetchSettings(answered)
  \/ \E saved \in BOOLEAN : Settings_handleToggle(saved)

SpecSettingsView == Init /\ [][NextSettingsView]_vars

\* The swap-request creation form of one browser, and the users who sign in
\* at it.
SessionUsers == {"agent1", "agent2"}

NextSwap ==
  \/ CreateSwapRequest_mount
  \/ \E u \in SessionUsers : AuthProvider_onAuthStateChange(u)
  \/ \E u \in Users, answered \in BOOLEAN :
       CreateSwapRequest_fetchAgents(u, answered)
  \/ \E u \in Users, answered \in BOOLEAN :
       CreateSwapRequest_fetchMyShifts(u, answered)
  \/ \E v \in Users \cup {""} : CreateSwapRequest_setTargetUserId(v)
  \/ \E u \in Users, answered \in BOOLEAN :
       CreateSwapRequest_fetchTargetShifts(u, answered)
  \/ \E v \in ShiftIds \cup {""} : CreateSwapRequest_setMyShiftId(v)
  \/ \E v \in ShiftIds \cup {""} : CreateSwapRequest_setTargetShiftId(v)
  \/ \E inserted \in BOOLEAN : CreateSwapRequest_handleSubmit(inserted)

SpecSwap == Init /\ [][NextSwap]_vars

\* The life of swap requests: the creation form of one user, the
\* workforce manager's settings page, the target's answer and the decision.
NextSwapFlow ==
  \/ CreateSwapRequest_mount
  \/ \E u \in Users, answered \in BOOLEAN :
       CreateSwapRequest_fetchAgents(u, answered)
  \/ \E u \in Users, answered \in BOOLEAN :
       CreateSwapRequest_fetchMyShifts(u, answered)
  \/ \E v \in Users \cup {""} : CreateSwapRequest_setTargetUserId(v)
  \/ \E u \in Users, answered \in BOOLEAN :
       CreateSwapRequest_fetchTargetShifts(u, answered)
  \/ \E v \in ShiftIds \cup {""} : CreateSwapRequest_setMyShiftId(v)
  \/ \E v \in ShiftIds \cup {""} : CreateSwapRequest_setTargetShiftId(v)
  \/ \E inserted \in BOOLEAN : CreateSwapRequest_handleSubmit(inserted)
  \/ \E answered \in BOOLEAN : Settings_fetchSettings(answered)
  \/ \E saved \in BOOLEAN : Settings_handleToggle(saved)
  \/ \E id \in 1..MaxSwap, actor \in Users, accept \in BOOLEAN :
       respondToSwapRequest(id, actor, accept)
  \/ \E id \in 1..MaxSwap, actor \in Users, d \in {"approve", "reject"} :
       decideSwapRequest(id, actor, d)

SpecSwapFlow == Init /\ [][NextSwapFlow]_vars

\* Swap requests decided by two managers at the same time.
NextSwapRace ==
  \/ CreateSwapRequest_mount
  \/ \E u \in Users, answered \in BOOLEAN :
       CreateSwapRequest_fetchAgents(u, answered)
  \/ \E u \in Users, answered \in BOOLEAN :
       CreateSwapRequest_fetchMyShifts(u, answered)
  \/ \E v \in Users \cup {""} : CreateSwapRequest_setTargetUserId(v)
  \/ \E u \in Users, answered \in BOOLEAN :
       CreateSwapRequest_fetchTargetShifts(u, answered)
  \/ \E v \in ShiftIds \cup {""} : CreateSwapRequest_setMyShiftId(v)
  \/ \E v \in ShiftIds \cup {""} : CreateSwapRequest_setTargetShiftId(v)
  \/ \E inserted \in BOOLEAN : CreateSwapRequest_handleSubmit(inserted)
  \/ \E id \in 1..MaxSwap, actor \in Users, accept \in BOOLEAN :
       respondToSwapRequest(id, actor, accept)
  \/ \E m \in Deciders, id \in 1..MaxSwap, d \in {"approve", "reject"} :
       decideSwapRequest_read(m, id, d)
  \/ \E m \in Deciders : saveRequestTransition(m)

SpecSwapRace == Init /\ [][NextSwapRace]_vars

\* The page is loaded: the provider mounts with or without a stored session.
InitAuth ==
  /\ now = 1
  /\ settings = [k \in {"wfm_auto_approve"} |-> "false"]
  /\ leave_requests = <<>>
  /\ settingsPage = [autoApprove |-> FALSE, loading |-> TRUE]
  /\ rejectedFrom = <<>>
  /\ last = Last("init", OK, 0, "", "", FALSE, NoRequest)
  /\ authUser = "agent1"
  /\ today = Today
  /\ shifts = InitialShifts
  /\ swap_requests = <<>>
  /\ swapForm = UnmountedSwapForm
  /\ swapFetches = NoFetches
  /\ swapLast = [op |-> "init", outcome |-> OK]
  /\ swapDeciding = [m \in Deciders |-> NoDecision]
  /\ users = Users
  /\ auth = InitialAuth
  /\ \E stored \in AuthSessions \cup {NoSession} :
       authRun = [stored |-> stored, init |-> "getSession",
                  signingOut |-> FALSE, fetches |-> {}, signedOut |-> FALSE]

FetchesUnderWay ==
  [by : {"initializeAuth", "onAuthStateChange", "signIn"}, id : AuthSessions]

NextAuth ==
  \/ \E ok \in BOOLEAN : AuthProvider_initializeAuth(ok)
  \/ AuthProvider_onAuthStateChange_session
  \/ \E f \in FetchesUnderWay, found \in BOOLEAN :
       AuthProvider_fetchUserProfile(f, found)
  \/ \E u \in AuthSessions, ok \in BOOLEAN : AuthProvider_signIn(u, ok)
  \/ AuthProvider_signOut_begin
  \/ \E ok \in BOOLEAN : AuthProvider_signOut_finally(ok)

SpecAuth == InitAuth /\ [][NextAuth]_vars

\* A third agent, without shifts, in the users table.
ThreeAgents == Users \cup {"agent3"}

InitColleagues ==
  /\ now = 1
  /\ settings = [k \in {"wfm_auto_approve"} |-> "false"]
  /\ leave_requests = <<>>
  /\ settingsPage = [autoApprove |-> FALSE, loading |-> TRUE]
  /\ rejectedFrom = <<>>
  /\ last = Last("init", OK, 0, "", "", FALSE, NoRequest)
  /\ authUser = "agent1"
  /\ today = Today
  /\ shifts = InitialShifts
  /\ swap_requests = <<>>
  /\ swapForm = UnmountedSwapForm
  /\ swapFetches = NoFetches
  /\ swapLast = [op |-> "init", outcome |-> OK]
  /\ swapDeciding = [m \in Deciders |-> NoDecision]
  /\ users = ThreeAgents
  /\ auth = SignedInAuth("agent1")
  /\ authRun = SettledRun("agent1")

\* The swap-request creation form of agent1, who has two colleagues to choose
\* from.
NextSwapColleagues ==
  \/ CreateSwapRequest_mount
  \/ \E u \in ThreeAgents, answered \in BOOLEAN :
       CreateSwapRequest_fetchAgents(u, answered)
  \/ \E u \in ThreeAgents, answered \in BOOLEAN :
       CreateSwapRequest_fetchMyShifts(u, answered)
  \/ \E v \in ThreeAgents \cup {""} : CreateSwapRequest_setTargetUserId(v)
  \/ \E u \in ThreeAgents, answered \in BOOLEAN :
       CreateSwapRequest_fetchTargetShifts(u, answered)
  \/ \E v \in ShiftIds \cup {""} : CreateSwapRequest_setMyShiftId(v)
  \/ \E v \in ShiftIds \cup {""} : CreateSwapRequest_setTargetShiftId(v)
  \/ \E inserted \in BOOLEAN : CreateSwapRequest_handleSubmit(inserted)

SpecSwapColleagues == InitColleagues /\ [][NextSwapColleagues]_vars

\* The swap-request creation form of one user, left open over midnight.
NextSwapDay ==
  \/ CreateSwapRequest_mount
  \/ Midnight
  \/ \E u \in Users, answered \in BOOLEAN :
       CreateSwapRequest_fetchAgents(u, answered)
  \/ \E u \in Users, answered \in BOOLEAN :
       CreateSwapRequest_fetchMyShifts(u, answered)
  \/ \E v \in Users \cup {""} : CreateSwapRequest_setTargetUserId(v)
  \/ \E u \in Users, answered \in BOOLEAN :
       CreateSwapRequest_fetchTargetShifts(u, answered)
  \/ \E v \in ShiftIds \cup {""} : CreateSwapRequest_setMyShiftId(v)
  \/ \E v \in ShiftIds \cup {""} : CreateSwapRequest_setTargetShiftId(v)
  \/ \E inserted \in BOOLEAN : CreateSwapRequest_handleSubmit(inserted)

SpecSwapDay == Init /\ [][NextSwapDay]_vars

\* ------------------------------------------------------------------ claims

LeaveCreated == last.op = "createLeaveRequest" /\ last.outcome = OK
LeaveDecision == last.op = "decideLeaveRequest" /\ last.id \in DOMAIN leave_requests
LastRow == leave_requests[last.id]

C2_InvalidRangeNoRecord ==
  [][\A s \in Days, e \in Days :
       (e < s /\ CreateLeaveRequest_onSubmit(s, e))
       => /\ last'.op = "createLeaveRequest"
          /\ last'.outcome = InvalidRange
          /\ leave_requests' = leave_requests]_vars

C2_Witness ==
  /\ last.op = "createLeaveRequest" /\ last.outcome = InvalidRange
  /\ settings["wfm_auto_approve"] = "true"

\* C3: every approved leave request has both decision timestamps set and
\* every pending_tl leave request has neither.
C3_ApprovedAndPendingTlStamps ==
  \A id \in DOMAIN leave_requests :
    LET r == leave_requests[id]
    IN /\ r.status = "approved" =>
            r.tl_approved_at # NULL /\ r.wfm_approved_at # NULL
       /\ r.status = "pending_tl" =>
            r.tl_approved_at = NULL /\ r.wfm_approved_at = NULL

C3_Witness ==
  /\ LeaveDecision /\ last.outcome = OK
  /\ LastRow.status = "approved"
  /\ last.before.status = "pending_wfm"

\* C4: a pending_wfm leave request has the team-lead timestamp set and the
\* workforce-manager timestamp null; a rejected one has the timestamp of the
\* stage it was rejected at set.
C4_PendingWfmAndRejectedStamps ==
  \A id \in DOMAIN leave_requests :
    LET r == leave_requests[id]
    IN /\ r.status = "pending_wfm" =>
            r.tl_approved_at # NULL /\ r.wfm_approved_at = NULL
       /\ r.status = "rejected" =>
            /\ rejectedFrom[id] \in {"pending_tl", "pending_wfm"}
            /\ rejectedFrom[id] = "pending_tl" => r.tl_approved_at # NULL
            /\ rejectedFrom[id] = "pending_wfm" => r.wfm_approved_at # NULL

C4_Witness ==
  \E id \in DOMAIN leave_requests :
    /\ leave_requests[id].status = "rejected"
    /\ rejectedFrom[id] = "pending_wfm"
    /\ leave_requests[id].wfm_approved_at # NULL

C6_WfmApprove ==
  (/\ LeaveDecision
   /\ last.before.status = "pending_wfm"
   /\ last.decision = "approve")
  => IF last.role = "wfm"
     THEN /\ last.outcome = OK
          /\ LastRow.status = "approved"
          /\ LastRow.wfm_approved_at # NULL
          /\ LastRow.tl_approved_at = last.before.tl_approved_at
     ELSE /\ last.outcome = Unauthorized
          /\ LastRow = last.before

C6_Witness ==
  /\ LeaveDecision /\ last.outcome = Unauthorized
  /\ last.before.status = "pending_wfm" /\ last.decision = "approve"
  /\ last.role = "tl"

C8_Reject ==
  (/\ LeaveDecision /\ last.decision = "reject"
   /\ RoleAllowed(last.before.status, last.role))
  => /\ last.outcome = OK
     /\ LastRow.status = "rejected"
     /\ last.before.status = "pending_tl" =>
          /\ LastRow.tl_approved_at # NULL
          /\ LastRow.wfm_approved_at = last.before.wfm_approved_at
     /\ last.before.status = "pending_wfm" =>
          /\ LastRow.wfm_approved_at # NULL
          /\ LastRow.tl_approved_at = last.before.tl_approved_at

C8_Witness ==
  /\ LeaveDecision /\ last.outcome = OK /\ last.decision = "reject"
  /\ last.before.status = "pending_wfm"
  /\ LastRow.status = "rejected"
  /\ LastRow.tl_approved_at = last.before.tl_approved_at
  /\ LastRow.tl_approved_at # NULL

\* C9: approved and rejected are absorbing: a decision on a request in either
\* status fails with TerminalState for every role and decision, and a row in
\* either status is the same in every later state.
C9_TerminalAbsorbing ==
  /\ [](LeaveDecision /\ last.before.status \in {"approved", "rejected"} =>
          last.outcome = TerminalState /\ LastRow = last.before)
  /\ [][\A id \in DOMAIN leave_requests :
          leave_requests[id].status \in {"approved", "rejected"} =>
            /\ id \in DOMAIN leave_requests'
            /\ leave_requests'[id] = leave_requests[id]]_vars

C9_Witness ==
  /\ LeaveDecision /\ last.outcome = TerminalState
  /\ last.before.status = "rejected" /\ last.decision = "approve"
  /\ last.role = "wfm"

\* C10 as stated: every stored swap request has a requester different from
\* its target user (a submission with the two equal is refused).
C10_RequesterIsNotTarget ==
  \A id \in DOMAIN swap_requests :
    swap_requests[id].requester_id # swap_requests[id].target_user_id

\* C11 as stated: a swap request is stored only if, when it is submitted, the
\* requester's shift belongs to the requester, the target's shift belongs to
\* the target user, and neither shift is dated before the current day.
C11_ShiftsValidAtCall ==
  [][Len(swap_requests') = Len(swap_requests) + 1 =>
       LET r == swap_requests'[Len(swap_requests')]
       IN /\ shifts[r.requester_shift_id].user_id = r.requester_id
          /\ shifts[r.target_shift_id].user_id = r.target_user_id
          /\ shifts[r.requester_shift_id].date >= today
          /\ shifts[r.target_shift_id].date >= today]_vars

\* C12 as stated: every stored swap request carries the date and the shift
\* type of each of its two shifts as they were when it was created.
C12_CarriesSnapshot ==
  \A id \in DOMAIN swap_requests :
    LET r == swap_requests[id]
    IN /\ r.requester_original_date = shifts[r.requester_shift_id].date
       /\ r.requester_original_shift_type = shifts[r.requester_shift_id].shift_type
       /\ r.target_original_date = shifts[r.target_shift_id].date
       /\ r.target_original_shift_type = shifts[r.target_shift_id].shift_type

\* C13: every swap request enters the table in status pending_acceptance,
\* whatever the auto-approve setting holds when it is created.
C13_CreatedPendingAcceptance ==
  [][\A id \in DOMAIN swap_requests' \ DOMAIN swap_requests :
       swap_requests'[id].status = "pending_acceptance"]_vars

C13_Witness ==
  /\ swapLast.op = "createSwapRequest" /\ swapLast.outcome = OK
  /\ settings["wfm_auto_approve"] = "true"
  /\ swap_requests[Len(swap_requests)].status = "pending_acceptance"

SwapResponse ==
  swapLast.op = "respondToSwapRequest" /\ swapLast.id \in DOMAIN swap_requests

SwapDecision ==
  swapLast.op = "decideSwapRequest" /\ swapLast.id \in DOMAIN swap_requests

LastSwapRow == swap_requests[swapLast.id]

\* C14 as stated: an answer to a pending_acceptance request by anyone but its
\* target user fails with Unauthorized and leaves it in pending_acceptance.
C14_OnlyTargetResponds ==
  (/\ SwapResponse
   /\ swapLast.before.status = "pending_acceptance"
   /\ swapLast.actor # swapLast.before.target_user_id)
  => /\ swapLast.outcome = Unauthorized
     /\ LastSwapRow.status = "pending_acceptance"

\* C15: the target user's answer to a pending_acceptance request moves it to
\* pending_approval on accept and to declined on decline; an answer to a
\* request in any other status changes nothing; a declined request is the
\* same in every later state.
C15_TargetResponds ==
  /\ []((/\ SwapResponse
          /\ swapLast.before.status = "pending_acceptance"
          /\ swapLast.actor = swapLast.before.target_user_id)
         => /\ swapLast.outcome = OK
            /\ LastSwapRow =
                 [swapLast.before EXCEPT
                    !.status = IF swapLast.arg THEN "pending_approval"
                               ELSE "declined"])
  /\ []((SwapResponse /\ swapLast.before.status # "pending_acceptance")
         => swapLast.outcome # OK /\ LastSwapRow = swapLast.before)
  /\ [][\A id \in DOMAIN swap_requests :
          swap_requests[id].status = "declined" =>
            /\ id \in DOMAIN swap_requests'
            /\ swap_requests'[id] = swap_requests[id]]_vars

C15_Witness ==
  /\ SwapResponse /\ swapLast.outcome = OK
  /\ swapLast.before.status = "pending_acceptance"
  /\ swapLast.actor = swapLast.before.target_user_id
  /\ ~swapLast.arg
  /\ LastSwapRow.status = "declined"

\* C16 as stated: a decision changes a swap request only if the request is in
\* pending_approval and the actor is a team lead or a workforce manager; the
\* decision of an agent, or one on a pending_acceptance request, never leaves
\* the request approved or rejected.
C16_OnlyManagersDecide ==
  SwapDecision =>
    /\ LastSwapRow # swapLast.before =>
         /\ swapLast.before.status = "pending_approval"
         /\ Role(swapLast.actor) \in {"tl", "wfm"}
    /\ (\/ Role(swapLast.actor) = "agent"
        \/ swapLast.before.status = "pending_acceptance") =>
         LastSwapRow.status \notin {"approved", "rejected"}

BecomesApproved(id) ==
  /\ swap_requests[id].status # "approved"
  /\ swap_requests'[id].status = "approved"

\* C17: the step that approves a swap request exchanges the owners of its two
\* shifts and touches no other shift; shift owners change in no other step,
\* so each request exchanges them once; a decision on an approved request
\* fails with TerminalState and leaves request and shifts as they were.
C17_ExchangedOnce ==
  /\ [][\A id \in DOMAIN swap_requests :
          BecomesApproved(id) =>
            LET a == swap_requests[id].requester_shift_id
                b == swap_requests[id].target_shift_id
            IN /\ shifts'[a].user_id = shifts[b].user_id
               /\ shifts'[b].user_id = shifts[a].user_id
               /\ \A x \in ShiftIds \ {a, b} : shifts'[x] = shifts[x]]_vars
  /\ [][shifts' # shifts =>
          Cardinality({id \in DOMAIN swap_requests : BecomesApproved(id)}) = 1]_vars
  /\ []((SwapDecision /\ swapLast.before.status = "approved")
         => swapLast.outcome = TerminalState /\ LastSwapRow = swapLast.before)

C17_Witness ==
  /\ SwapDecision /\ swapLast.outcome = TerminalState
  /\ swapLast.before.status = "approved" /\ swapLast.arg = "approve"
  /\ shifts[swapLast.before.requester_shift_id].user_id =
       swapLast.before.target_user_id
  /\ shifts[swapLast.before.target_shift_id].user_id =
       swapLast.before.requester_id

RECURSIVE ExchangesApplied(_, _, _)
\* The shifts sh after the exchange of each approved request among the first
\* n rows.
ExchangesApplied(rows, sh, n) ==
  IF n = 0 THEN sh
  ELSE LET before == ExchangesApplied(rows, sh, n - 1)
       IN IF rows[n].status = "approved"
          THEN Exchanged(before, rows[n].requester_shift_id,
                         rows[n].target_shift_id)
          ELSE before

C20_OnlyWfmChangesSetting ==
  /\ [][settings' # settings =>
          /\ last'.op \in {"handleToggle", "settings_upsert", "settings_update"}
          /\ last'.role = "wfm"
          /\ last'.outcome = OK]_vars
  /\ [][\A actor \in Users, value \in SettingValues :
          (Role(actor) # "wfm" /\
             (settings_upsert(actor, value) \/ settings_update(actor, value)))
            => settings' = settings /\ last'.outcome = Unauthorized]_vars
  /\ [](last.op = "settings_select" =>
          /\ last.outcome = OK
          /\ last.flag = IsAutoApprove(settings["wfm_auto_approve"]))

C20_Witness ==
  /\ last.op = "settings_update"
  /\ last.role = "tl"
  /\ last.decision = "false"
  /\ last.outcome = Unauthorized
  /\ settings["wfm_auto_approve"] = "true"

\* C21: a leave request created when the read of the auto-approve setting
\* fails or finds no row is pending_tl, never approved, and after a failed read
\* of the setting the settings page shows the flag as off.
C21_FailedReadMeansOff ==
  /\ [][\A lt \in LeaveTypeChoices, s \in Days, e \in Days, t \in now..MaxClock :
          (CreateLeaveRequest_handleSubmit(lt, s, e, FALSE, TRUE, t, t, t)
             /\ Len(leave_requests') = Len(leave_requests) + 1)
          => leave_requests'[Len(leave_requests')].status = "pending_tl"]_vars
  /\ []((last.op = "fetchSettings" /\ last.outcome = FetchFailed)
          => ~settingsPage.autoApprove)

\* C22: a step that changes the stored auto-approve flag leaves every leave
\* request, every swap request and every shift as it was; the flag acts only
\* on a request created afterwards, which is approved at creation only while
\* the stored flag is on.
C22_NotRetroactive ==
  /\ [][settings' # settings =>
          /\ leave_requests' = leave_requests
          /\ swap_requests' = swap_requests
          /\ shifts' = shifts]_vars
  /\ []((LeaveCreated /\ LastRow.status = "approved")
          => settings["wfm_auto_approve"] = "true")

C22_Witness ==
  /\ last.op = "handleToggle" /\ last.outcome = OK /\ last.flag
  /\ settings["wfm_auto_approve"] = "true"
  /\ Len(leave_requests) >= 1
  /\ leave_requests[1].status = "pending_tl"
  /\ leave_requests[1].tl_approved_at = NULL
  /\ swap_requests[1].status = "pending_approval"

TlApproval ==
  /\ LeaveDecision /\ last.outcome = OK
  /\ last.before.status = "pending_tl" /\ last.decision = "approve"

\* C23: the setting bypasses the workforce manager's review only. A request
\* is not approved before a team lead's approval: it is created pending_tl;
\* a team lead's approval made while the stored flag is on leaves it approved
\* with both timestamps set, and one made while the flag is off leaves it
\* pending_wfm, waiting for the workforce manager.
C23_CascadeAtTlApproval ==
  /\ LeaveCreated => LastRow.status = "pending_tl"
  /\ (TlApproval /\ settings["wfm_auto_approve"] = "true")
       => /\ LastRow.status = "approved"
          /\ LastRow.tl_approved_at # NULL /\ LastRow.wfm_approved_at # NULL
  /\ (TlApproval /\ settings["wfm_auto_approve"] = "false")
       => LastRow.status = "pending_wfm"

\* C24: createLeaveRequest is a function of the request state and its inputs:
\* two runs started in the same state with the same owner, leave type, dates
\* and flag value, whatever the moments at which they run, build the same
\* request (status and timestamps).
C24_Deterministic ==
  Len(leave_requests) < MaxLeave =>
    \A lt \in LeaveTypeChoices, s \in Days, e \in Days, flag \in BOOLEAN :
      LET f == [user |-> FormUser, leaveType |-> lt, startDate |-> s,
                endDate |-> e, isAutoApprove |-> flag]
      IN \A t1 \in now..MaxClock, t2 \in now..MaxClock :
           NewLeaveRow(f, t1, t1, t1) = NewLeaveRow(f, t2, t2, t2)

C26_AcceptedByTargetFirst ==
  /\ [][\A id \in DOMAIN swap_requests :
          (swap_requests[id].status \notin {"approved", "rejected"}
             /\ swap_requests'[id].status \in {"approved", "rejected"})
          => swap_requests[id].status = "pending_approval"]_vars
  /\ [][\A id \in DOMAIN swap_requests :
          (swap_requests[id].status # "pending_approval"
             /\ swap_requests'[id].status = "pending_approval")
          => /\ swap_requests[id].status = "pending_acceptance"
             /\ swapLast'.op = "respondToSwapRequest"
             /\ swapLast'.arg = TRUE
             /\ swapLast'.actor = swap_requests[id].target_user_id]_vars
  /\ [][\A id \in DOMAIN swap_requests :
          swap_requests[id].status = "pending_approval"
          => swap_requests'[id].status # "pending_acceptance"]_vars

C28_TargetShiftOfTargetUser ==
  [][Len(swap_requests') = Len(swap_requests) + 1 =>
       LET r == swap_requests'[Len(swap_requests')]
       IN shifts[r.target_shift_id].user_id = r.target_user_id]_vars

\* C29: once signOut has completed and every callback has settled, user,
\* supabaseUser and session are null and loading is false; and the provider
\* never settles with a user and no session.
C29_SignedOutSettles ==
  /\ (authRun.signedOut /\ AuthSettled)
       => auth = [user |-> NoSession, supabaseUser |-> NoSession,
                  session |-> NoSession, loading |-> FALSE]
  /\ AuthSettled => ~(auth.user # NoSession /\ auth.session = NoSession)

\* C30: ProtectedRoute renders its children exactly when loading is false and
\* user is set, PublicRoute exactly when loading is false and user is null;
\* the two never render their children in the same state, and a protected
\* page is not rendered while the session is null.
C30_RouteGuards ==
  /\ ProtectedRoute = "children" <=> (~auth.loading /\ auth.user # NoSession)
  /\ PublicRoute = "children" <=> (~auth.loading /\ auth.user = NoSession)
  /\ auth.loading => ProtectedRoute = "spinner" /\ PublicRoute = "spinner"
  /\ ~(ProtectedRoute = "children" /\ PublicRoute = "children")
  /\ ProtectedRoute = "children" => auth.session # NoSession

====
